---- MODULE Spec2Model ----
(***************************************************************************)
(* A model of the SOLID-principles examples:                               *)
(*   - OCP.py: Product, the Specification classes, the '&' combinator and  *)
(*     BetterFilter.filter (a generator), with its usage example;          *)
(*   - LSP.py: Rectangle and Square with their width/height properties;    *)
(*   - SRP.py: Journal with add_entry and remove_entry.                    *)
(*                                                                         *)
(* Python objects are records of their attributes; an object that lacks an *)
(* attribute is a record without that field.  A call's outcome is "True"   *)
(* or "False" (the returned bool) or the name of the exception it raised.  *)
(***************************************************************************)
EXTENDS Integers, Sequences, FiniteSets, TLC

VARIABLES
    products,   \* OCP: the list handed to BetterFilter.filter
    s1, s2,     \* OCP: the operands a client combines
    mode,       \* OCP: how the client builds its specification
    spec,       \* OCP: the specification object built so far
    err,        \* OCP: the exception that ended the client, or "None"
    pc,         \* OCP: where the client is
    pos,        \* OCP: items the generator's for-loop has consumed
    out,        \* OCP: items the generator has yielded
    calls,      \* OCP: is_satisfied calls of this pass, in call order
    item,       \* OCP: the item an interactive client evaluates on
    result,     \* OCP: outcome of the last direct is_satisfied call
    last,       \* OCP: the last constructor / operator application
    rc, sq,     \* LSP: a Rectangle and a Square
    lastSet,    \* LSP: last value given to the Square (size or assignment)
    printed,    \* LSP: what use_it printed last
    journal,    \* SRP: the Journal object j (its entries and count)
    jlast       \* SRP: the last Journal call and the exception it raised

vars == <<products, s1, s2, mode, spec, err, pc, pos, out, calls,
          item, result, last, rc, sq, lastSet, printed, journal, jlast>>

ocpVars == <<products, s1, s2, mode, spec, err, pc, pos, out, calls,
             item, result, last>>
lspVars == <<rc, sq, lastSet, printed>>
srpVars == <<journal, jlast>>

-----------------------------------------------------------------------------
(* Bounds *)

MaxLen == 3     \* longest collection handed to filter
MaxAnd == 2     \* most AndSpecification nodes in one specification
MaxVal == 3     \* largest side length assigned to a shape
MaxEntries == 3 \* most entries a journal holds

-----------------------------------------------------------------------------
(* OCP.py: enumerations and Product *)

Color == {"RED", "GREEN", "BLUE"}
Size == {"SMALL", "MEDIUM", "LARGE"}

Product(name, color, size) == [name |-> name, color |-> color, size |-> size]

\* str values are sequences of characters, so that startswith is computed
Apple == <<"A", "p", "p", "l", "e">>
Tree == <<"T", "r", "e", "e">>
House == <<"H", "o", "u", "s", "e">>

apple == Product(Apple, "GREEN", "SMALL")
tree == Product(Tree, "GREEN", "LARGE")
house == Product(House, "BLUE", "LARGE")

UsageProducts == <<apple, tree, house>>

\* getattr: the attribute's value, or AttributeError when the object has none
HasAttr(obj, attr) == attr \in DOMAIN obj

-----------------------------------------------------------------------------
(* OCP.py: the Specification classes *)

NoSpec == [kind |-> "None"]

ColorSpecification(color) == [kind |-> "ColorSpecification", color |-> color]
SizeSpecification(size) == [kind |-> "SizeSpecification", size |-> size]
AndSpecification(spec1, spec2) ==
    [kind |-> "AndSpecification", spec1 |-> spec1, spec2 |-> spec2]

\* A variant written by a client: 'name starts with X', defining only
\* is_satisfied (item.name.startswith(self.prefix)).
NameStartsWith(prefix) == [kind |-> "NameStartsWith", prefix |-> prefix]

StartsWith(str, prefix) ==
    /\ Len(prefix) <= Len(str)
    /\ SubSeq(str, 1, Len(prefix)) = prefix

Bool(b) == IF b THEN "True" ELSE "False"

\* One is_satisfied call: who was called (the node's path from the root of
\* the specification used, 1 = spec1, 2 = spec2), on which position of the
\* collection, and how the call ended.
Event(self, node, idx, res) ==
    [node |-> node, idx |-> idx, kind |-> self.kind, result |-> res]

\* A call returns its outcome and the calls made, in call order.
RECURSIVE is_satisfied(_, _, _, _)

\* faulty variant: getattr(item, 'color', None) == self.color
ColorSpecification_is_satisfied_default(self, it, node, idx) ==
    LET res == IF HasAttr(it, "color")
               THEN Bool(it.color = self.color)
               ELSE "False"
    IN [result |-> res, trace |-> <<Event(self, node, idx, res)>>]

ColorSpecification_is_satisfied(self, it, node, idx) ==
    LET res == IF HasAttr(it, "color")
               THEN Bool(it.color = self.color)
               ELSE "AttributeError"
    IN [result |-> res, trace |-> <<Event(self, node, idx, res)>>]

SizeSpecification_is_satisfied(self, it, node, idx) ==
    LET res == IF HasAttr(it, "size")
               THEN Bool(self.size = it.size)
               ELSE "AttributeError"
    IN [result |-> res, trace |-> <<Event(self, node, idx, res)>>]

NameStartsWith_is_satisfied(self, it, node, idx) ==
    LET res == IF HasAttr(it, "name")
               THEN Bool(StartsWith(it.name, self.prefix))
               ELSE "AttributeError"
    IN [result |-> res, trace |-> <<Event(self, node, idx, res)>>]

\* faulty variants of line 182: 'or' for 'and', a stray 'not', and '&'
AndSpecification_is_satisfied_or(self, it, node, idx) ==
    LET c1 == is_satisfied(self.spec1, it, Append(node, 1), idx)
        c2 == is_satisfied(self.spec2, it, Append(node, 2), idx)
        res == IF c1.result = "False" THEN c2.result ELSE c1.result
    IN [result |-> res,
        trace |-> <<Event(self, node, idx, res)>> \o c1.trace
                  \o (IF c1.result = "False" THEN c2.trace ELSE <<>>)]

AndSpecification_is_satisfied_and_not(self, it, node, idx) ==
    LET c1 == is_satisfied(self.spec1, it, Append(node, 1), idx)
        c2 == is_satisfied(self.spec2, it, Append(node, 2), idx)
        neg == CASE c2.result = "True" -> "False"
                 [] c2.result = "False" -> "True"
                 [] OTHER -> c2.result
        res == IF c1.result = "True" THEN neg ELSE c1.result
    IN [result |-> res,
        trace |-> <<Event(self, node, idx, res)>> \o c1.trace
                  \o (IF c1.result = "True" THEN c2.trace ELSE <<>>)]

AndSpecification_is_satisfied_eager(self, it, node, idx) ==
    LET c1 == is_satisfied(self.spec1, it, Append(node, 1), idx)
        c2 == is_satisfied(self.spec2, it, Append(node, 2), idx)
        res == CASE c1.result = "AttributeError" -> "AttributeError"
                 [] c2.result = "AttributeError" -> "AttributeError"
                 [] OTHER -> Bool(c1.result = "True" /\ c2.result = "True")
    IN [result |-> res,
        trace |-> <<Event(self, node, idx, res)>> \o c1.trace
                  \o (IF c1.result = "AttributeError" THEN <<>> ELSE c2.trace)]

\* 'x and y': x's outcome unless x is true, and then y's; y is not
\* evaluated otherwise; an exception in x or y propagates.
AndSpecification_is_satisfied(self, it, node, idx) ==
    LET c1 == is_satisfied(self.spec1, it, Append(node, 1), idx)
        c2 == is_satisfied(self.spec2, it, Append(node, 2), idx)
        res == IF c1.result = "True" THEN c2.result ELSE c1.result
    IN [result |-> res,
        trace |-> <<Event(self, node, idx, res)>> \o c1.trace
                  \o (IF c1.result = "True" THEN c2.trace ELSE <<>>)]

\* dynamic dispatch on the object's class
is_satisfied(self, it, node, idx) ==
    CASE self.kind = "ColorSpecification" ->
            ColorSpecification_is_satisfied(self, it, node, idx)
      [] self.kind = "SizeSpecification" ->
            SizeSpecification_is_satisfied(self, it, node, idx)
      [] self.kind = "AndSpecification" ->
            AndSpecification_is_satisfied(self, it, node, idx)
      [] self.kind = "NameStartsWith" ->
            NameStartsWith_is_satisfied(self, it, node, idx)

\* The outcome alone, of a call from outside any filter pass.
Satisfied(self, it) == is_satisfied(self, it, <<>>, 0).result

\* Only AndSpecification defines __and__; no class defines __rand__.
HasDunderAnd(self) == self.kind = "AndSpecification"

AndSpecification___and__(self, other) == AndSpecification(self, other)

\* The binary operator 'a & b': type(a).__and__(a, b) when type(a) defines
\* it, and TypeError (unsupported operand types) otherwise.
Amp(a, b) ==
    IF HasDunderAnd(a)
    THEN [exc |-> "None", value |-> AndSpecification___and__(a, b)]
    ELSE [exc |-> "TypeError", value |-> NoSpec]

-----------------------------------------------------------------------------
(* Input domains *)

Prefixes == {<<"T">>}

Leaves ==
    {ColorSpecification(c) : c \in Color}
    \cup {SizeSpecification(s) : s \in Size}
    \cup {NameStartsWith(p) : p \in Prefixes}

\* duck-typed items that lack an attribute a specification may query
noSize == [name |-> Tree, color |-> "GREEN"]
noColor == [name |-> House, size |-> "LARGE"]
nameOnly == [name |-> Apple]

Stock == {apple, tree, house, noSize, noColor}
Items == Stock \cup {nameOnly}

Collections == UNION {[1..k -> Stock] : k \in 0..MaxLen}

\* the composites a filtering client starts from
Composites ==
    {AndSpecification(SizeSpecification("LARGE"), ColorSpecification("BLUE")),
     AndSpecification(ColorSpecification("GREEN"), SizeSpecification("SMALL"))}

NoOp == [op |-> "none", a |-> NoSpec, b |-> NoSpec]
NotCalled == "NotCalled"

-----------------------------------------------------------------------------
(* LSP.py: Rectangle and Square *)

Rectangle(width, height) ==
    [cls |-> "Rectangle", _width |-> width, _height |-> height]

Square(size) == [Rectangle(size, size) EXCEPT !.cls = "Square"]

-----------------------------------------------------------------------------
(* A client that builds one specification and filters one collection with  *)
(* it, as the usage example does three times.                              *)

ocpIdle ==
    /\ item = nameOnly
    /\ result = NotCalled
    /\ last = NoOp

\* SRP.py: Journal()
Journal == [entries |-> <<>>, count |-> 0]

NoCall == [op |-> "none", exc |-> "None"]

srpIdle ==
    /\ journal = Journal
    /\ jlast = NoCall

lspIdle ==
    /\ rc = Rectangle(0, 0)
    /\ sq = Square(0)
    /\ lastSet = 0
    /\ printed = <<>>

InitFilter ==
    /\ products \in Collections
    /\ mode \in {"single", "ctor", "amp"}
    /\ s1 \in Leaves \cup Composites
    /\ s2 \in Leaves
    /\ (mode = "single" => s2 = s1)
    /\ spec = NoSpec
    /\ err = "None"
    /\ pc = "combine"
    /\ pos = 0
    /\ out = <<>>
    /\ calls = <<>>
    /\ ocpIdle
    /\ lspIdle
    /\ srpIdle

\* green = ColorSpecification(...), AndSpecification(a, b), or a & b
Combine ==
    /\ pc = "combine"
    /\ LET r == CASE mode = "single" -> [exc |-> "None", value |-> s1]
                  [] mode = "ctor" ->
                        [exc |-> "None", value |-> AndSpecification(s1, s2)]
                  [] mode = "amp" -> Amp(s1, s2)
       IN /\ spec' = r.value
          /\ err' = r.exc
          /\ pc' = IF r.exc = "None" THEN "filter" ELSE "raised"
    /\ UNCHANGED <<products, s1, s2, mode, pos, out, calls, item, result, last>>
    /\ UNCHANGED lspVars
    /\ UNCHANGED srpVars

\* faulty variants of the generator's loop body
FilterNext_inverted ==
    /\ pc = "filter"
    /\ pos < Len(products)
    /\ LET it == products[pos + 1]
           c == is_satisfied(spec, it, <<>>, pos + 1)
       IN /\ calls' = calls \o c.trace
          /\ pos' = pos + 1
          /\ IF c.result = "AttributeError"
             THEN /\ pc' = "raised"
                  /\ err' = "AttributeError"
                  /\ out' = out
             ELSE /\ pc' = pc
                  /\ err' = err
                  /\ out' = IF c.result = "False" THEN Append(out, it) ELSE out
    /\ UNCHANGED <<products, s1, s2, mode, spec, item, result, last>>
    /\ UNCHANGED lspVars
    /\ UNCHANGED srpVars

FilterNext_pop ==
    /\ pc = "filter"
    /\ products # <<>>
    /\ LET it == Head(products)
           c == is_satisfied(spec, it, <<>>, Len(calls) + 1)
       IN /\ calls' = calls \o c.trace
          /\ products' = Tail(products)
          /\ pos' = pos
          /\ IF c.result = "AttributeError"
             THEN /\ pc' = "raised"
                  /\ err' = "AttributeError"
                  /\ out' = out
             ELSE /\ pc' = pc
                  /\ err' = err
                  /\ out' = IF c.result = "True" THEN Append(out, it) ELSE out
    /\ UNCHANGED <<s1, s2, mode, spec, item, result, last>>
    /\ UNCHANGED lspVars
    /\ UNCHANGED srpVars

FilterNext_twice ==
    /\ pc = "filter"
    /\ pos < Len(products)
    /\ LET it == products[pos + 1]
           c == is_satisfied(spec, it, <<>>, pos + 1)
       IN /\ calls' = calls \o c.trace \o c.trace
          /\ pos' = pos + 1
          /\ IF c.result = "AttributeError"
             THEN /\ pc' = "raised"
                  /\ err' = "AttributeError"
                  /\ out' = out
             ELSE /\ pc' = pc
                  /\ err' = err
                  /\ out' = IF c.result = "True" THEN Append(out, it) ELSE out
    /\ UNCHANGED <<products, s1, s2, mode, spec, item, result, last>>
    /\ UNCHANGED lspVars
    /\ UNCHANGED srpVars

\* One iteration of 'for item in items: if spec.is_satisfied(item): yield item'.
\* An exception raised by is_satisfied leaves the generator and reaches the
\* client's for-loop.
FilterNext ==
    /\ pc = "filter"
    /\ pos < Len(products)
    /\ LET it == products[pos + 1]
           c == is_satisfied(spec, it, <<>>, pos + 1)
       IN /\ calls' = calls \o c.trace
          /\ pos' = pos + 1
          /\ IF c.result = "AttributeError"
             THEN /\ pc' = "raised"
                  /\ err' = "AttributeError"
                  /\ out' = out
             ELSE /\ pc' = pc
                  /\ err' = err
                  /\ out' = IF c.result = "True" THEN Append(out, it) ELSE out
    /\ UNCHANGED <<products, s1, s2, mode, spec, item, result, last>>
    /\ UNCHANGED lspVars
    /\ UNCHANGED srpVars

\* The list is exhausted: the generator returns (StopIteration).
FilterStop ==
    /\ pc = "filter"
    /\ pos = Len(products)
    /\ pc' = "done"
    /\ UNCHANGED <<products, s1, s2, mode, spec, err, pos, out, calls,
                   item, result, last>>
    /\ UNCHANGED lspVars
    /\ UNCHANGED srpVars

NextFilter == Combine \/ FilterNext \/ FilterStop

SpecFilter == InitFilter /\ [][NextFilter]_vars

-----------------------------------------------------------------------------
(* A client that builds a specification step by step, with the constructors *)
(* and with '&', and calls is_satisfied on it.                              *)

RECURSIVE NumAnd(_)
NumAnd(s) ==
    IF s.kind = "AndSpecification"
    THEN 1 + NumAnd(s.spec1) + NumAnd(s.spec2)
    ELSE 0

Init ==
    /\ item \in Items
    /\ spec = NoSpec
    /\ result = NotCalled
    /\ last = NoOp
    /\ err = "None"
    /\ pc = "session"
    /\ products = <<>>
    /\ s1 = NoSpec
    /\ s2 = NoSpec
    /\ mode = "session"
    /\ pos = 0
    /\ out = <<>>
    /\ calls = <<>>
    /\ lspIdle
    /\ srpIdle

sessionFrame ==
    /\ UNCHANGED <<products, s1, s2, mode, pos, out, calls, item>>
    /\ UNCHANGED lspVars
    /\ UNCHANGED srpVars

\* s = ColorSpecification(c), SizeSpecification(s) or a client's variant
Construct ==
    /\ pc = "session"
    /\ spec = NoSpec
    /\ \E leaf \in Leaves :
          /\ spec' = leaf
          /\ last' = [op |-> "new", a |-> NoSpec, b |-> leaf]
    /\ UNCHANGED <<err, pc, result>>
    /\ sessionFrame

\* The outcome of 's = <expression>': s is rebound only if nothing is raised.
Rebind(r, op, a, b) ==
    /\ last' = [op |-> op, a |-> a, b |-> b]
    /\ err' = r.exc
    /\ spec' = IF r.exc = "None" THEN r.value ELSE spec
    /\ pc' = IF r.exc = "None" THEN pc ELSE "raised"
    /\ result' = NotCalled

\* s = s & leaf
AmpRight ==
    /\ pc = "session"
    /\ spec # NoSpec
    /\ NumAnd(spec) < MaxAnd
    /\ \E leaf \in Leaves : Rebind(Amp(spec, leaf), "amp", spec, leaf)
    /\ sessionFrame

\* s = leaf & s
AmpLeft ==
    /\ pc = "session"
    /\ spec # NoSpec
    /\ NumAnd(spec) < MaxAnd
    /\ \E leaf \in Leaves : Rebind(Amp(leaf, spec), "amp", leaf, spec)
    /\ sessionFrame

\* s = AndSpecification(s, leaf)
CtorRight ==
    /\ pc = "session"
    /\ spec # NoSpec
    /\ NumAnd(spec) < MaxAnd
    /\ \E leaf \in Leaves :
          Rebind([exc |-> "None", value |-> AndSpecification(spec, leaf)],
                 "ctor", spec, leaf)
    /\ sessionFrame

\* s = AndSpecification(leaf, s)
CtorLeft ==
    /\ pc = "session"
    /\ spec # NoSpec
    /\ NumAnd(spec) < MaxAnd
    /\ \E leaf \in Leaves :
          Rebind([exc |-> "None", value |-> AndSpecification(leaf, spec)],
                 "ctor", leaf, spec)
    /\ sessionFrame

\* s.is_satisfied(item); an exception reaches the client, which catches it
Evaluate ==
    /\ pc = "session"
    /\ spec # NoSpec
    /\ result = NotCalled
    /\ result' = Satisfied(spec, item)
    /\ UNCHANGED <<spec, err, pc, last>>
    /\ sessionFrame

Next == Construct \/ AmpRight \/ AmpLeft \/ CtorRight \/ CtorLeft \/ Evaluate

Spec == Init /\ [][Next]_vars

-----------------------------------------------------------------------------
(* LSP.py: the properties of Rectangle and Square, and use_it              *)

Vals == 0..MaxVal

width(self) == self._width
height(self) == self._height
area(self) == width(self) * height(self)

Rectangle_width_setter(self, value) == [self EXCEPT !._width = value]
Rectangle_height_setter(self, value) == [self EXCEPT !._height = value]

Square_width_setter(self, value) ==
    [self EXCEPT !._width = value, !._height = value]

\* a Square that inherits Rectangle's height setter
Square_height_setter_inherited(self, value) == [self EXCEPT !._height = value]

Square_height_setter(self, value) ==
    [self EXCEPT !._height = value, !._width = value]

\* obj.width = value, obj.height = value: the setter of the object's class
SetWidth(self, value) ==
    IF self.cls = "Square"
    THEN Square_width_setter(self, value)
    ELSE Rectangle_width_setter(self, value)

SetHeight(self, value) ==
    IF self.cls = "Square"
    THEN Square_height_setter(self, value)
    ELSE Rectangle_height_setter(self, value)

UseItHeight == 10

\* use_it(rc): the object after the call, and the two numbers printed
use_it(self) ==
    LET w == width(self)
        after == SetHeight(self, UseItHeight)
        expected == w * UseItHeight
    IN [obj |-> after, printed |-> <<expected, area(after)>>]

InitLSP ==
    /\ \E w \in Vals, h \in Vals : rc = Rectangle(w, h)
    /\ \E size \in Vals : sq = Square(size) /\ lastSet = size
    /\ printed = <<>>
    /\ products = <<>>
    /\ s1 = NoSpec
    /\ s2 = NoSpec
    /\ mode = "none"
    /\ spec = NoSpec
    /\ err = "None"
    /\ pc = "none"
    /\ pos = 0
    /\ out = <<>>
    /\ calls = <<>>
    /\ ocpIdle
    /\ srpIdle

RcSetWidth ==
    /\ \E v \in Vals : rc' = SetWidth(rc, v)
    /\ UNCHANGED <<sq, lastSet, printed>>
    /\ UNCHANGED ocpVars
    /\ UNCHANGED srpVars

RcSetHeight ==
    /\ \E v \in Vals : rc' = SetHeight(rc, v)
    /\ UNCHANGED <<sq, lastSet, printed>>
    /\ UNCHANGED ocpVars
    /\ UNCHANGED srpVars

SqSetWidth ==
    /\ \E v \in Vals : sq' = SetWidth(sq, v) /\ lastSet' = v
    /\ UNCHANGED <<rc, printed>>
    /\ UNCHANGED ocpVars
    /\ UNCHANGED srpVars

SqSetHeight ==
    /\ \E v \in Vals : sq' = SetHeight(sq, v) /\ lastSet' = v
    /\ UNCHANGED <<rc, printed>>
    /\ UNCHANGED ocpVars
    /\ UNCHANGED srpVars

UseItRc ==
    /\ rc' = use_it(rc).obj
    /\ printed' = use_it(rc).printed
    /\ UNCHANGED <<sq, lastSet>>
    /\ UNCHANGED ocpVars
    /\ UNCHANGED srpVars

UseItSq ==
    /\ sq' = use_it(sq).obj
    /\ lastSet' = UseItHeight
    /\ printed' = use_it(sq).printed
    /\ UNCHANGED rc
    /\ UNCHANGED ocpVars
    /\ UNCHANGED srpVars

NextLSP ==
    RcSetWidth \/ RcSetHeight \/ SqSetWidth \/ SqSetHeight \/ UseItRc \/ UseItSq

SpecLSP == InitLSP /\ [][NextLSP]_vars

-----------------------------------------------------------------------------
(* Properties of the specification classes (checked under Spec)            *)

IsAnd(s) == s.kind = "AndSpecification"
Called == result # NotCalled

\* C1: AndSpecification(S1, S2).is_satisfied(I) is true exactly when
\* S1.is_satisfied(I) is true and S2.is_satisfied(I) is true.
C1_AndIsConjunction ==
    (Called /\ IsAnd(spec)) =>
        (result = "True" <=>
            (/\ Satisfied(spec.spec1, item) = "True"
             /\ Satisfied(spec.spec2, item) = "True"))

\* a nested conjunction was evaluated to true on the usage example's tree
C1_Witness ==
    /\ Called
    /\ IsAnd(spec)
    /\ IsAnd(spec.spec1)
    /\ result = "True"
    /\ item = tree

\* C3: 'a & b' returns a new AndSpecification with children a and b and
\* raises nothing, whatever the class of the left operand a.
C3_AmpCombinesAnyOperands ==
    last.op = "amp" =>
        /\ err = "None"
        /\ spec = AndSpecification(last.a, last.b)

\* C5: AND is associative: ((S1 and S2) and S3) and (S1 and (S2 and S3))
\* end the same way on every item (same bool, or the same exception).
C5_AndIsAssociative ==
    Called =>
        /\ (IsAnd(spec) /\ IsAnd(spec.spec1)) =>
              result = Satisfied(
                  AndSpecification(spec.spec1.spec1,
                      AndSpecification(spec.spec1.spec2, spec.spec2)), item)
        /\ (IsAnd(spec) /\ IsAnd(spec.spec2)) =>
              result = Satisfied(
                  AndSpecification(
                      AndSpecification(spec.spec1, spec.spec2.spec1),
                      spec.spec2.spec2), item)

\* ((S1 and S2) and S3) was evaluated to true with three different leaves
C5_Witness ==
    /\ Called
    /\ result = "True"
    /\ IsAnd(spec)
    /\ IsAnd(spec.spec1)
    /\ spec.spec1.spec1.kind = "SizeSpecification"
    /\ spec.spec1.spec2.kind = "ColorSpecification"
    /\ spec.spec2.kind = "NameStartsWith"

\* the attribute a leaf specification reads from the item
AttrOf(leaf) ==
    CASE leaf.kind = "ColorSpecification" -> "color"
      [] leaf.kind = "SizeSpecification" -> "size"
      [] leaf.kind = "NameStartsWith" -> "name"

\* the leaves of a specification, left to right
RECURSIVE LeavesOf(_)
LeavesOf(s) ==
    IF IsAnd(s) THEN LeavesOf(s.spec1) \o LeavesOf(s.spec2) ELSE <<s>>

Lacking(s, it) ==
    {i \in DOMAIN LeavesOf(s) : ~HasAttr(it, AttrOf(LeavesOf(s)[i]))}

Min(S) == CHOOSE m \in S : \A n \in S : m <= n

\* built from ColorSpecification, SizeSpecification and AndSpecification only
BuiltIn(s) ==
    \A i \in DOMAIN LeavesOf(s) :
        LeavesOf(s)[i].kind \in {"ColorSpecification", "SizeSpecification"}

\* C7 as stated: whenever the item lacks an attribute that the
\* specification, or any child of a composite, queries, is_satisfied ends
\* in the missing-attribute failure and never returns False.
C7_MissingAttributeAlwaysFails ==
    (Called /\ BuiltIn(spec) /\ Lacking(spec, item) # {}) =>
        result = "AttributeError"

\* C7, amended: a ColorSpecification or SizeSpecification on an item that
\* lacks the queried attribute raises AttributeError, never False; a
\* composite raises it exactly when the child that queries the missing
\* attribute is evaluated, that is when every leaf to its left is
\* satisfied, and returns False when a leaf to its left is not satisfied.
C7_MissingAttributeFailsWhenEvaluated ==
    (Called /\ Lacking(spec, item) # {}) =>
        LET ls == LeavesOf(spec)
            k == Min(Lacking(spec, item))
        IN IF \A i \in 1..(k - 1) : Satisfied(ls[i], item) = "True"
           THEN result = "AttributeError"
           ELSE result = "False"

\* a composite whose second child queries the missing attribute, after a
\* first child that is satisfied, raised
C7_Witness ==
    /\ Called
    /\ IsAnd(spec)
    /\ spec.spec1.kind = "SizeSpecification"
    /\ spec.spec2.kind = "ColorSpecification"
    /\ item = noColor
    /\ result = "AttributeError"

IsNew(s) == s.kind = "NameStartsWith"

\* C8: a new variant that defines only is_satisfied gives the results of its
\* predicate and can be either operand of the AND combination: of the
\* constructor, of '&' as its left operand, and of '&' as the right operand
\* of a composite.
C8_NewVariantCombines ==
    /\ (Called /\ IsNew(spec) /\ HasAttr(item, "name")) =>
          result = Bool(StartsWith(item.name, spec.prefix))
    /\ (last.op = "ctor" /\ (IsNew(last.a) \/ IsNew(last.b))) =>
          (err = "None" /\ spec = AndSpecification(last.a, last.b))
    /\ (last.op = "amp" /\ (IsNew(last.a) \/ (IsAnd(last.a) /\ IsNew(last.b)))) =>
          (err = "None" /\ spec = AndSpecification(last.a, last.b))

-----------------------------------------------------------------------------
(* Properties of BetterFilter.filter (checked under SpecFilter)            *)

Holds(s, it) == Satisfied(s, it) = "True"

Matching(s, items) ==
    LET Test(it) == Holds(s, it) IN SelectSeq(items, Test)

WellFormed(it) == {"name", "color", "size"} \subseteq DOMAIN it

\* C2: filter yields exactly the items of C that satisfy S, each as often as
\* it occurs and in C's order: at every point of the lazy pass the items
\* consumed so far, and at its end all of C; the empty collection yields
\* nothing; and only an item lacking an attribute can make the pass raise.
C2_FilterIsStableSelection ==
    /\ pc \in {"filter", "done"} =>
          out = Matching(spec, SubSeq(products, 1, pos))
    /\ pc = "done" => out = Matching(spec, products)
    /\ (pc = "done" /\ products = <<>>) => (out = <<>> /\ err = "None")
    /\ err = "AttributeError" => \E i \in DOMAIN products : ~WellFormed(products[i])

\* a finished pass over a collection with a repeated item, which was
\* yielded twice around an item that was dropped
C2_Witness ==
    /\ pc = "done"
    /\ Len(products) = 3
    /\ products[1] = products[3]
    /\ products[1] # products[2]
    /\ out = <<products[1], products[3]>>

Large == SizeSpecification("LARGE")

\* C4: with [Apple, Tree, House] the usage example runs to completion; green
\* gives [Apple, Tree], large gives [Tree, House], and
\* large & ColorSpecification(BLUE) gives [House].
C4_UsageExample ==
    products = UsageProducts =>
        /\ (mode = "single" /\ s1 = ColorSpecification("GREEN")) =>
              /\ pc # "raised"
              /\ pc = "done" => out = <<apple, tree>>
        /\ (mode = "single" /\ s1 = Large) =>
              /\ pc # "raised"
              /\ pc = "done" => out = <<tree, house>>
        /\ (mode = "amp" /\ s1 = Large /\ s2 = ColorSpecification("BLUE")) =>
              /\ pc # "raised"
              /\ pc = "done" => out = <<house>>

\* repeated evaluation: two calls of the same node of the specification on
\* equal items ended the same way
SameOutcomeOnRepeat ==
    \A i, j \in DOMAIN calls :
        (/\ calls[i].node = calls[j].node
         /\ calls[i].idx \in DOMAIN products
         /\ calls[j].idx \in DOMAIN products
         /\ products[calls[i].idx] = products[calls[j].idx])
            => calls[i].result = calls[j].result

\* C6: a filter pass, with the is_satisfied calls it makes, changes neither
\* the collection (its items, their attributes, their order) nor the
\* specification (its parameters and children), and repeated evaluation of
\* the same (specification, item) pair returns the same result.
C6_EvaluationChangesNothing ==
    /\ [][pc = "filter" =>
            (/\ products' = products
             /\ spec' = spec
             /\ s1' = s1
             /\ s2' = s2)]_vars
    /\ []SameOutcomeOnRepeat

\* a finished pass that evaluated a composite on the same item twice
C6_Witness ==
    /\ pc = "done"
    /\ IsAnd(spec)
    /\ Len(products) = 3
    /\ products[1] = products[2]
    /\ Len(calls) > 3

Last(sq_) == sq_[Len(sq_)]
Front(sq_) == SubSeq(sq_, 1, Len(sq_) - 1)
TopCalls == LET IsTop(c) == c.node = <<>> IN SelectSeq(calls, IsTop)

\* C9: a pass calls spec.is_satisfied once per item consumed, in collection
\* order; a composite evaluates spec1, then spec2 only if spec1 returned
\* true, and each at most once per item.
C9_SingleScanShortCircuit ==
    /\ Len(TopCalls) = pos
    /\ \A k \in DOMAIN TopCalls : TopCalls[k].idx = k
    /\ pc = "done" => Len(TopCalls) = Len(products)
    /\ \A i, j \in DOMAIN calls :
          (calls[i].node = calls[j].node /\ calls[i].idx = calls[j].idx) => i = j
    /\ \A j \in DOMAIN calls :
          (calls[j].node # <<>> /\ Last(calls[j].node) = 2) =>
              \E i \in 1..(j - 1) :
                  /\ calls[i].node = Append(Front(calls[j].node), 1)
                  /\ calls[i].idx = calls[j].idx
                  /\ calls[i].result = "True"
    /\ \A i \in DOMAIN calls :
          calls[i].kind = "AndSpecification" =>
              /\ i < Len(calls)
              /\ calls[i + 1].node = Append(calls[i].node, 1)
              /\ calls[i + 1].idx = calls[i].idx
    /\ \A i \in DOMAIN calls :
          (calls[i].node # <<>> /\ Last(calls[i].node) = 1
                /\ calls[i].result = "True") =>
              \E j \in (i + 1)..Len(calls) :
                  /\ calls[j].node = Append(Front(calls[i].node), 2)
                  /\ calls[j].idx = calls[i].idx

\* a finished pass over three items in which a nested composite stopped at
\* a false spec1 for one item and went on to spec2 for another
C9_Witness ==
    /\ pc = "done"
    /\ Len(products) = 3
    /\ IsAnd(spec)
    /\ IsAnd(spec.spec1)
    /\ \E i \in DOMAIN calls :
          calls[i].node = <<1, 1>> /\ calls[i].result = "False"
    /\ \E i \in DOMAIN calls :
          calls[i].node = <<1, 2>> /\ calls[i].result = "True"

-----------------------------------------------------------------------------
(* Properties of Square (checked under SpecLSP)                            *)

\* C10: a Square always has width equal to height, and its area is the
\* square of the last value assigned (or of the initial size).
C10_SquareStaysSquare ==
    /\ width(sq) = height(sq)
    /\ area(sq) = lastSet * lastSet

\* use_it(sq) on a Square of side 3 printed 'Expected area: 30, but got: 100'
C10_Witness ==
    /\ printed = <<3 * UseItHeight, UseItHeight * UseItHeight>>
    /\ sq = Square(UseItHeight)

-----------------------------------------------------------------------------
(* SRP.py: Journal                                                         *)

Digit(d) == <<"0", "1", "2", "3", "4", "5", "6", "7", "8", "9">>[d + 1]

\* str(n) of a non-negative int, as its characters
RECURSIVE Str(_)
Str(n) == IF n < 10 THEN <<Digit(n)>> ELSE Str(n \div 10) \o <<Digit(n % 10)>>

\* f"{count}: {text}"
FormatEntry(count, text) ==
    (IF count < 0 THEN <<"-">> \o Str(-count) ELSE Str(count))
    \o <<":", " ">> \o text

\* self.count += 1; self.entries.append(f"{self.count}: {text}")
add_entry(self, text) ==
    LET count == self.count + 1
    IN [self |-> [entries |-> Append(self.entries, FormatEntry(count, text)),
                  count |-> count],
        exc |-> "None"]

\* 'del lst[at]': a negative index counts from the end; an index outside
\* -len..len-1 raises IndexError and leaves the list as it was
DelItem(lst, at) ==
    LET n == Len(lst)
        i == IF at < 0 THEN at + n ELSE at
    IN IF i < 0 \/ i >= n
       THEN [lst |-> lst, exc |-> "IndexError"]
       ELSE [lst |-> SubSeq(lst, 1, i) \o SubSeq(lst, i + 2, n),
             exc |-> "None"]

\* faulty variant: the count is decreased before the entry is deleted
remove_entry_count_first(self, at) ==
    LET d == DelItem(self.entries, at)
    IN [self |-> [entries |-> d.lst, count |-> self.count - 1],
        exc |-> d.exc]

\* del self.entries[pos]; self.count -= 1
\* (an IndexError leaves remove_entry before the count is touched)
remove_entry(self, at) ==
    LET d == DelItem(self.entries, at)
    IN IF d.exc # "None"
       THEN [self |-> self, exc |-> d.exc]
       ELSE [self |-> [entries |-> d.lst, count |-> self.count - 1],
             exc |-> "None"]

Texts == {<<"I", " ", "c", "o", "d", "e", "d">>, <<"I", " ", "a", "t", "e">>}

\* positions tried: every valid index, negative ones, and some out of range
Positions == (-(MaxEntries + 1))..(MaxEntries + 1)

InitSRP ==
    /\ srpIdle
    /\ products = <<>>
    /\ s1 = NoSpec
    /\ s2 = NoSpec
    /\ mode = "none"
    /\ spec = NoSpec
    /\ err = "None"
    /\ pc = "none"
    /\ pos = 0
    /\ out = <<>>
    /\ calls = <<>>
    /\ ocpIdle
    /\ lspIdle

\* j.add_entry(text)
AddEntry ==
    /\ Len(journal.entries) < MaxEntries
    /\ \E text \in Texts :
          LET r == add_entry(journal, text)
          IN /\ journal' = r.self
             /\ jlast' = [op |-> "add_entry", exc |-> r.exc]
    /\ UNCHANGED ocpVars
    /\ UNCHANGED lspVars

\* j.remove_entry(pos); the caller catches an IndexError and goes on
RemoveEntry ==
    /\ \E p \in Positions :
          LET r == remove_entry(journal, p)
          IN /\ journal' = r.self
             /\ jlast' = [op |-> "remove_entry", exc |-> r.exc]
    /\ UNCHANGED ocpVars
    /\ UNCHANGED lspVars

NextSRP == AddEntry \/ RemoveEntry

SpecSRP == InitSRP /\ [][NextSRP]_vars

-----------------------------------------------------------------------------
(* Properties of Journal (checked under SpecSRP)                           *)

\* C11: after any sequence of add_entry and remove_entry calls, failed
\* removals included, journal.count equals the number of entries.
C11_CountIsNumberOfEntries == journal.count = Len(journal.entries)

\* a removal at an out-of-range position has just failed on a journal that
\* holds entries
C11_Witness ==
    /\ jlast = [op |-> "remove_entry", exc |-> "IndexError"]
    /\ Len(journal.entries) = 2
    /\ journal.count = 2

====
